---------------------------- MODULE Spec2Model ----------------------------
(***************************************************************************)
(* Frustum and Aabb of src/util/primitives.ts as a state machine.          *)
(*                                                                         *)
(* Numbers are exact: a model integer stands for the JavaScript number of  *)
(* the same value.  Box coordinates are multiples of Grid = 2^MaxDepth, so *)
(* that every (min + max) * 0.5 taken down to MaxDepth subdivisions is an  *)
(* integer, as it is exact in binary floating point.                       *)
(*                                                                         *)
(* AlphaImage and RGBAImage of the image utility share the state: an      *)
(* image is an object of `images`, its bytes are a buffer on the heap.     *)
(*                                                                         *)
(* A vec3 or vec4 that the code allocates is an array on the heap: `heap`  *)
(* maps an array's identity to its contents, and an Aabb holds the         *)
(* identities of its min, max and center arrays, as the object holds       *)
(* references.  A Frustum is held by value: no operation of the file       *)
(* writes to a frustum's arrays after the constructor has stored them.     *)
(***************************************************************************)
EXTENDS Integers, Sequences, FiniteSets, TLC

VARIABLES
    heap,      \* array identity -> contents (a sequence of 3 numbers)
    boxes,     \* path of quadrant indices from the root -> Aabb object
    camera,    \* what the camera hands over: [invProj, worldSize, zoom]
    frustum,   \* the current Frustum: [points, planes]
    phase,     \* "calls" while methods are called, "written" once a caller wrote
    last,      \* the last call: [op, box, arg, ret]
    images     \* name of an AlphaImage or RGBAImage -> the image object

vars == <<heap, boxes, camera, frustum, phase, last, images>>

---------------------------------------------------------------------------
(* Bounds of the model *)

\* most boxes alive at once (the root and its descendants)
MaxBoxes == 5
\* deepest quadrant() nesting below the root
MaxDepth == 1
\* root coordinates range over Grid * (-MaxCoord .. MaxCoord)
MaxCoord == 1
\* most images alive at once
MaxImages == 2
\* widths and heights of images range over 0 .. MaxSide
MaxSide == 1

RECURSIVE Pow2(_)
Pow2(n) == IF n = 0 THEN 1 ELSE 2 * Pow2(n - 1)

Grid == Pow2(MaxDepth)

Coords == {Grid * k : k \in -MaxCoord..MaxCoord}

---------------------------------------------------------------------------
(* IntersectionResult *)

None == 0
Partial == 1
Full == 2

\* Number.MAX_VALUE: above every number of the model
MAX_VALUE == 2147483647

---------------------------------------------------------------------------
(* gl-matrix helpers, on values *)

Min2(a, b) == IF a < b THEN a ELSE b
Max2(a, b) == IF a > b THEN a ELSE b

vec4_dot(a, b) == a[1] * b[1] + a[2] * b[2] + a[3] * b[3] + a[4] * b[4]

vec3_dot(a, b) == a[1] * b[1] + a[2] * b[2] + a[3] * b[3]

vec3_sub(a, b) == <<a[1] - b[1], a[2] - b[2], a[3] - b[3]>>

vec3_add(a, b) == <<a[1] + b[1], a[2] + b[2], a[3] + b[3]>>

vec3_cross(a, b) ==
    <<a[2] * b[3] - a[3] * b[2],
      a[3] * b[1] - a[1] * b[3],
      a[1] * b[2] - a[2] * b[1]>>

\* vec3.scale(out, v, 0.5); every sum halved in the model is even
vec3_half(v) == <<v[1] \div 2, v[2] \div 2, v[3] \div 2>>

---------------------------------------------------------------------------
(* Aabb: the methods that only read, on the box's values                   *)
(* this = [min |-> vec3, max |-> vec3, center |-> vec3]                    *)

aabbPoints(this) ==
    << <<this.min[1], this.min[2], this.min[3], 1>>,
       <<this.max[1], this.min[2], this.min[3], 1>>,
       <<this.max[1], this.max[2], this.min[3], 1>>,
       <<this.min[1], this.max[2], this.min[3], 1>>,
       <<this.min[1], this.min[2], this.max[3], 1>>,
       <<this.max[1], this.min[2], this.max[3], 1>>,
       <<this.max[1], this.max[2], this.max[3], 1>>,
       <<this.min[1], this.max[2], this.max[3], 1>> >>

\* faulty variant: a corner on the plane is not counted
pointsInside_strict(plane, pts) ==
    Cardinality({i \in 1..Len(pts) : vec4_dot(plane, pts[i]) > 0})

\* the inner loop over aabbPoints: how many have vec4.dot(plane, point) >= 0
pointsInside(plane, pts) ==
    Cardinality({i \in 1..Len(pts) : vec4_dot(plane, pts[i]) >= 0})

\* faulty variant: Math.min and Math.max exchanged
distanceX_swapped(this, point) ==
    LET pointOnAabb == Min2(Max2(this.max[1], point[1]), this.min[1])
    IN  pointOnAabb - point[1]

distanceX(this, point) ==
    LET pointOnAabb == Max2(Min2(this.max[1], point[1]), this.min[1])
    IN  pointOnAabb - point[1]

distanceY(this, point) ==
    LET pointOnAabb == Max2(Min2(this.max[2], point[2]), this.min[2])
    IN  pointOnAabb - point[2]

intersectsPlane(this, plane) ==
    LET pts == aabbPoints(this)
        n   == pointsInside(plane, pts)
    IN  IF n = 0 THEN None
        ELSE IF n < Len(pts) THEN Partial
        ELSE Full

\* faulty variant: fullyInside is overwritten by each plane instead of only cleared
RECURSIVE planeLoop_overwrite(_, _, _, _)
planeLoop_overwrite(planes, pts, p, fullyInside) ==
    IF p > Len(planes) THEN [ret |-> FALSE, fullyInside |-> fullyInside]
    ELSE LET n == pointsInside(planes[p], pts)
         IN  IF n = 0 THEN [ret |-> TRUE, fullyInside |-> fullyInside]
             ELSE planeLoop_overwrite(planes, pts, p + 1, n = Len(pts))

\* faulty variant: the loop stops one plane short
RECURSIVE planeLoop_short(_, _, _, _)
planeLoop_short(planes, pts, p, fullyInside) ==
    IF p > Len(planes) - 1 THEN [ret |-> FALSE, fullyInside |-> fullyInside]
    ELSE LET n == pointsInside(planes[p], pts)
         IN  IF n = 0 THEN [ret |-> TRUE, fullyInside |-> fullyInside]
             ELSE planeLoop_short(planes, pts, p + 1, fullyInside /\ n = Len(pts))

\* the loop over frustum.planes from plane p on: None at the first plane with
\* no corner inside, else whether every plane had all corners inside
RECURSIVE planeLoop(_, _, _, _)
planeLoop(planes, pts, p, fullyInside) ==
    IF p > Len(planes) THEN [ret |-> FALSE, fullyInside |-> fullyInside]
    ELSE LET n == pointsInside(planes[p], pts)
         IN  IF n = 0 THEN [ret |-> TRUE, fullyInside |-> fullyInside]
             ELSE planeLoop(planes, pts, p + 1, fullyInside /\ n = Len(pts))

\* projMin and projMax of the frustum points on one axis, from point p on
RECURSIVE projLoop(_, _, _, _, _)
projLoop(points, axis, lo, p, acc) ==
    IF p > Len(points) THEN acc
    ELSE LET projectedPoint == points[p][axis] - lo
         IN  projLoop(points, axis, lo, p + 1,
                      [projMin |-> Min2(acc.projMin, projectedPoint),
                       projMax |-> Max2(acc.projMax, projectedPoint)])

\* faulty variant: touching intervals count as separated
RECURSIVE axisLoop_touching(_, _, _)
axisLoop_touching(this, points, axis) ==
    IF axis > 3 THEN FALSE
    ELSE LET proj == projLoop(points, axis, this.min[axis], 1,
                              [projMin |-> MAX_VALUE, projMax |-> -MAX_VALUE])
         IN  IF proj.projMax <= 0 \/ proj.projMin >= this.max[axis] - this.min[axis]
             THEN TRUE
             ELSE axisLoop_touching(this, points, axis + 1)

\* faulty variant: the interval is compared with max instead of max - min
RECURSIVE axisLoop_max(_, _, _)
axisLoop_max(this, points, axis) ==
    IF axis > 3 THEN FALSE
    ELSE LET proj == projLoop(points, axis, this.min[axis], 1,
                              [projMin |-> MAX_VALUE, projMax |-> -MAX_VALUE])
         IN  IF proj.projMax < 0 \/ proj.projMin > this.max[axis]
             THEN TRUE
             ELSE axisLoop_max(this, points, axis + 1)

\* the loop over the 3 axes from `axis` on: TRUE when one of them separates
RECURSIVE axisLoop(_, _, _)
axisLoop(this, points, axis) ==
    IF axis > 3 THEN FALSE
    ELSE LET proj == projLoop(points, axis, this.min[axis], 1,
                              [projMin |-> MAX_VALUE, projMax |-> -MAX_VALUE])
         IN  IF proj.projMax < 0 \/ proj.projMin > this.max[axis] - this.min[axis]
             THEN TRUE
             ELSE axisLoop(this, points, axis + 1)

intersectsFrustum(this, f) ==
    LET pl == planeLoop(f.planes, aabbPoints(this), 1, TRUE)
    IN  IF pl.ret THEN None
        ELSE IF pl.fullyInside THEN Full
        ELSE IF axisLoop(this, f.points, 1) THEN None
        ELSE Partial

---------------------------------------------------------------------------
(* Aabb: construction and subdivision, on the heap                         *)
(* an Aabb object is [min |-> id, max |-> id, center |-> id]               *)

\* the values an Aabb object holds in heap h
ValueOf(h, this) ==
    [min |-> h[this.min], max |-> h[this.max], center |-> h[this.center]]

\* faulty variant: no copy is made: the array itself is handed on
vec3_clone_alias(h, a, id) == [heap |-> h, ref |-> a]

\* vec3.clone(a): a new array `id` holding a's contents
vec3_clone(h, a, id) == [heap |-> h @@ (id :> h[a]), ref |-> id]

\* faulty variant: the sum of min and max is not scaled by 0.5
Aabb_unscaled(h, min_, max_, centerId) ==
    [heap |-> h @@ (centerId :> vec3_add(h[min_], h[max_])),
     this |-> [min |-> min_, max |-> max_, center |-> centerId]]

\* new Aabb(min_, max_): the object keeps the two arrays it is given and
\* allocates its center
Aabb(h, min_, max_, centerId) ==
    [heap |-> h @@ (centerId :> vec3_half(vec3_add(h[min_], h[max_]))),
     this |-> [min |-> min_, max |-> max_, center |-> centerId]]

\* faulty variant: the high half keeps the parent's min
RECURSIVE splitLoop_overlap(_, _, _, _, _, _)
splitLoop_overlap(h, this, split, qMin, qMax, axis) ==
    IF axis > Len(split) THEN h
    ELSE LET h1 == [h EXCEPT ![qMin][axis] = h[this.min][axis]]
             h2 == [h1 EXCEPT ![qMax][axis] =
                        IF split[axis] THEN h1[this.center][axis]
                                       ELSE h1[this.max][axis]]
         IN  splitLoop_overlap(h2, this, split, qMin, qMax, axis + 1)

\* for (axis = 0; axis < split.length; axis++) of quadrant, from `axis` on
RECURSIVE splitLoop(_, _, _, _, _, _)
splitLoop(h, this, split, qMin, qMax, axis) ==
    IF axis > Len(split) THEN h
    ELSE LET h1 == [h EXCEPT ![qMin][axis] =
                        IF split[axis] THEN h[this.min][axis]
                                       ELSE h[this.center][axis]]
             h2 == [h1 EXCEPT ![qMax][axis] =
                        IF split[axis] THEN h1[this.center][axis]
                                       ELSE h1[this.max][axis]]
         IN  splitLoop(h2, this, split, qMin, qMax, axis + 1)

\* faulty variant: the two index tests are exchanged
quadrant_swapped(h, this, index, fresh) ==
    LET split == <<index < 2, (index % 2) = 0>>
        c1    == vec3_clone(h, this.min, fresh.min)
        c2    == vec3_clone(c1.heap, this.max, fresh.max)
        qMin  == c1.ref
        qMax  == c2.ref
        h3    == splitLoop(c2.heap, this, split, qMin, qMax, 1)
        h4    == [h3 EXCEPT ![qMax][3] = h3[this.max][3]]
    IN  Aabb(h4, qMin, qMax, fresh.center)

\* quadrant(index); fresh names the three arrays the call allocates
quadrant(h, this, index, fresh) ==
    LET split == <<(index % 2) = 0, index < 2>>
        c1    == vec3_clone(h, this.min, fresh.min)
        c2    == vec3_clone(c1.heap, this.max, fresh.max)
        qMin  == c1.ref
        qMax  == c2.ref
        h3    == splitLoop(c2.heap, this, split, qMin, qMax, 1)
        h4    == [h3 EXCEPT ![qMax][3] = h3[this.max][3]]
    IN  Aabb(h4, qMin, qMax, fresh.center)

---------------------------------------------------------------------------
(* Frustum.fromInvProjectionMatrix                                         *)
(* a mat4 is the sequence of its 16 numbers, column-major as in gl-matrix  *)

clipSpaceCorners ==
    << <<-1,  1, -1, 1>>,
       << 1,  1, -1, 1>>,
       << 1, -1, -1, 1>>,
       <<-1, -1, -1, 1>>,
       <<-1,  1,  1, 1>>,
       << 1,  1,  1, 1>>,
       << 1, -1,  1, 1>>,
       <<-1, -1,  1, 1>> >>

\* corner indices, 1-based: the code's [0,1,2] is <<1,2,3>>
frustumPlanePointIndices ==
    << <<1, 2, 3>>,   \* near
       <<7, 6, 5>>,   \* far
       <<1, 4, 8>>,   \* left
       <<3, 2, 6>>,   \* right
       <<4, 3, 7>>,   \* bottom
       <<1, 5, 6>> >> \* top

vec4_transformMat4(a, m) ==
    <<m[1] * a[1] + m[5] * a[2] + m[9]  * a[3] + m[13] * a[4],
      m[2] * a[1] + m[6] * a[2] + m[10] * a[3] + m[14] * a[4],
      m[3] * a[1] + m[7] * a[2] + m[11] * a[3] + m[15] * a[4],
      m[4] * a[1] + m[8] * a[2] + m[12] * a[3] + m[16] * a[4]>>

\* a / b for b # 0; the inputs of the model make every quotient exact
Quot(a, b) == IF b < 0 THEN (-a) \div (-b) ELSE a \div b

Abs(x) == IF x < 0 THEN -x ELSE x

RECURSIVE Gcd(_, _)
Gcd(a, b) == IF b = 0 THEN a ELSE Gcd(b, a % b)

\* vec3.normalize: v times the positive factor 1 / |v|, and v itself when
\* |v| = 0.  |v| is irrational in general; the model divides by the
\* positive factor gcd(|x|, |y|, |z|) instead, so a plane (n, d) of the model
\* is the code's plane times one positive number, and vec4.dot(plane, p)
\* has the sign it has in the code.
vec3_normalize(v) ==
    LET g == Gcd(Gcd(Abs(v[1]), Abs(v[2])), Abs(v[3]))
    IN  IF g = 0 THEN v ELSE <<v[1] \div g, v[2] \div g, v[3] \div g>>

\* the map over clipSpaceCorners: s = 1.0 / v[3] / worldSize * scale and
\* v * [s, s, 1.0 / v[3], s]
frustumCoord(c, invProj, worldSize, scale) ==
    LET v == vec4_transformMat4(c, invProj)
    IN  <<Quot(v[1] * scale, v[4] * worldSize),
          Quot(v[2] * scale, v[4] * worldSize),
          Quot(v[3], v[4]),
          Quot(scale, worldSize)>>

\* faulty variant: the cross product is taken the other way round
frustumPlane_reversed(frustumCoords, p) ==
    LET a == vec3_sub(frustumCoords[p[1]], frustumCoords[p[2]])
        b == vec3_sub(frustumCoords[p[3]], frustumCoords[p[2]])
        n == vec3_normalize(vec3_cross(b, a))
        d == -vec3_dot(n, frustumCoords[p[2]])
    IN  <<n[1], n[2], n[3], d>>

\* the map over frustumPlanePointIndices
frustumPlane(frustumCoords, p) ==
    LET a == vec3_sub(frustumCoords[p[1]], frustumCoords[p[2]])
        b == vec3_sub(frustumCoords[p[3]], frustumCoords[p[2]])
        n == vec3_normalize(vec3_cross(a, b))
        d == -vec3_dot(n, frustumCoords[p[2]])
    IN  <<n[1], n[2], n[3], d>>

fromInvProjectionMatrix(invProj, worldSize, zoom) ==
    LET scale == Pow2(zoom)
        frustumCoords ==
            [i \in 1..Len(clipSpaceCorners) |->
                frustumCoord(clipSpaceCorners[i], invProj, worldSize, scale)]
        frustumPlanes ==
            [i \in 1..Len(frustumPlanePointIndices) |->
                frustumPlane(frustumCoords, frustumPlanePointIndices[i])]
    IN  [points |-> frustumCoords, planes |-> frustumPlanes]

---------------------------------------------------------------------------
(* AlphaImage and RGBAImage                                                *)
(* a typed array is [view, kind, buffer, length]: the identity of the      *)
(* array object, its class, the identity of its ArrayBuffer on the heap    *)
(* and its length; every typed array of the model starts at byte 0 of its  *)
(* buffer.  An image is [channels, width, height, data]: channels is 1 for *)
(* an AlphaImage and 4 for an RGBAImage, data is a typed array.            *)

\* no data argument
NoData == [view |-> <<>>, kind |-> "undefined", buffer |-> <<>>, length |-> 0]

\* what reading past the end of a typed array gives
Undefined == -1

\* the conversion of a value stored into a Uint8Array
ToUint8(v) == IF v = Undefined THEN 0 ELSE v % 256

Zeros(n) == [i \in 1..n |-> 0]

\* new Uint8Array(length)
Uint8Array_ofLength(h, length, fresh) ==
    [heap |-> h @@ (fresh.buffer :> Zeros(length)),
     ref  |-> [view |-> fresh.view, kind |-> "Uint8Array",
               buffer |-> fresh.buffer, length |-> length]]

\* new Uint8Array(data.buffer): a new array on the whole buffer of data
Uint8Array_ofBuffer(h, data, fresh) ==
    [view |-> fresh.view, kind |-> "Uint8Array",
     buffer |-> data.buffer, length |-> Len(h[data.buffer])]

\* new Uint8Array(data): a new buffer holding a copy of data's elements
Uint8Array_ofArray(h, data, fresh) ==
    [heap |-> h @@ (fresh.buffer :> SubSeq(h[data.buffer], 1, data.length)),
     ref  |-> [view |-> fresh.view, kind |-> "Uint8Array",
               buffer |-> fresh.buffer, length |-> data.length]]

\* data[k], k counted from 0
ElementAt(h, data, k) ==
    IF k < data.length THEN h[data.buffer][k + 1] ELSE Undefined

\* data[k] = v, k counted from 0: a store past the end does nothing
StoreAt(h, data, k, v) ==
    IF k < data.length THEN [h EXCEPT ![data.buffer][k + 1] = ToUint8(v)] ELSE h

NoImage == [channels |-> 0, width |-> 0, height |-> 0, data |-> NoData]

\* createImage(image, {width, height}, channels, data): what it throws, the
\* heap after it and the fields it gives the image
createImage(h, size, channels, data, fresh) ==
    IF data = NoData
    THEN LET a == Uint8Array_ofLength(h, size.width * size.height * channels, fresh)
         IN  [threw |-> "none", heap |-> a.heap,
              image |-> [channels |-> channels, width |-> size.width,
                         height |-> size.height, data |-> a.ref]]
    ELSE IF data.kind = "Uint8ClampedArray"
    THEN [threw |-> "none", heap |-> h,
          image |-> [channels |-> channels, width |-> size.width,
                     height |-> size.height,
                     data |-> Uint8Array_ofBuffer(h, data, fresh)]]
    ELSE IF data.length # size.width * size.height * channels
    THEN [threw |-> "RangeError", heap |-> h, image |-> NoImage]
    ELSE [threw |-> "none", heap |-> h,
          image |-> [channels |-> channels, width |-> size.width,
                     height |-> size.height, data |-> data]]

\* the two loops of copyImage, from element k of the copied rectangle on:
\* k = y * size.width * channels + i
RECURSIVE copyLoop(_, _, _, _, _, _, _, _)
copyLoop(h, srcImg, dstImg, srcPt, dstPt, size, channels, k) ==
    IF k >= size.height * size.width * channels THEN h
    ELSE LET y == k \div (size.width * channels)
             i == k % (size.width * channels)
             srcOffset == ((srcPt.y + y) * srcImg.width + srcPt.x) * channels
             dstOffset == ((dstPt.y + y) * dstImg.width + dstPt.x) * channels
             h1 == StoreAt(h, dstImg.data, dstOffset + i,
                           ElementAt(h, srcImg.data, srcOffset + i))
         IN  copyLoop(h1, srcImg, dstImg, srcPt, dstPt, size, channels, k + 1)

\* copyImage(srcImg, dstImg, srcPt, dstPt, size, channels)
copyImage(h, srcImg, dstImg, srcPt, dstPt, size, channels) ==
    IF size.width = 0 \/ size.height = 0
    THEN [threw |-> "none", heap |-> h]
    ELSE IF \/ size.width > srcImg.width
            \/ size.height > srcImg.height
            \/ srcPt.x > srcImg.width - size.width
            \/ srcPt.y > srcImg.height - size.height
    THEN [threw |-> "RangeError", heap |-> h]
    ELSE IF \/ size.width > dstImg.width
            \/ size.height > dstImg.height
            \/ dstPt.x > dstImg.width - size.width
            \/ dstPt.y > dstImg.height - size.height
    THEN [threw |-> "RangeError", heap |-> h]
    ELSE IF srcImg.data.view = dstImg.data.view
    THEN [threw |-> "Error", heap |-> h]
    ELSE [threw |-> "none",
          heap |-> copyLoop(h, srcImg, dstImg, srcPt, dstPt, size, channels, 0)]

\* resizeImage(image, {width, height}, channels)
resizeImage(h, image, size, channels, fresh) ==
    IF size.width = image.width /\ size.height = image.height
    THEN [threw |-> "none", heap |-> h, image |-> image]
    ELSE LET newImage == createImage(h, size, channels, NoData, fresh)
             origin   == [x |-> 0, y |-> 0]
             copied   == copyImage(newImage.heap, image, newImage.image, origin, origin,
                                   [width  |-> Min2(image.width, size.width),
                                    height |-> Min2(image.height, size.height)],
                                   channels)
         IN  IF copied.threw # "none"
             THEN [threw |-> copied.threw, heap |-> copied.heap, image |-> image]
             ELSE [threw |-> "none", heap |-> copied.heap,
                   image |-> [image EXCEPT !.width = size.width,
                                           !.height = size.height,
                                           !.data = newImage.image.data]]

\* clone(): the constructor on a copy of this.data
clone(h, this, fresh) ==
    LET a == Uint8Array_ofArray(h, this.data, fresh)
    IN  createImage(a.heap, [width |-> this.width, height |-> this.height],
                    this.channels, a.ref, fresh)

\* this.data.set(data): RangeError when data is longer than this.data, else
\* data's elements are stored from element 0 on
TypedArray_set(h, target, data) ==
    IF data.length > target.length
    THEN [threw |-> "RangeError", heap |-> h]
    ELSE [threw |-> "none",
          heap |-> [h EXCEPT ![target.buffer] =
                       [k \in 1..Len(h[target.buffer]) |->
                           IF k <= data.length THEN h[data.buffer][k]
                                               ELSE h[target.buffer][k]]]]

\* RGBAImage.replace(data, copy)
replace(h, this, data, copy, fresh) ==
    IF copy
    THEN LET r == TypedArray_set(h, this.data, data)
         IN  [threw |-> r.threw, heap |-> r.heap, image |-> this]
    ELSE IF data.kind = "Uint8ClampedArray"
    THEN [threw |-> "none", heap |-> h,
          image |-> [this EXCEPT !.data = Uint8Array_ofBuffer(h, data, fresh)]]
    ELSE [threw |-> "none", heap |-> h, image |-> [this EXCEPT !.data = data]]

---------------------------------------------------------------------------
(* Inputs: the boxes, points, planes, frusta and matrices callers pass     *)

\* <<lo, hi>> on one axis: in order, degenerate (lo = hi) and inverted
Intervals == Coords \X Coords

BoxOf(x, y, z) == [min |-> <<x[1], y[1], z[1]>>, max |-> <<x[2], y[2], z[2]>>]

\* roots of the subdivided trees
TreeRoots ==
    { BoxOf(<<-Grid, Grid>>, <<-Grid, Grid>>, <<0, Grid>>),
      BoxOf(<<0, Grid>>, <<-Grid, 0>>, <<-Grid, Grid>>),
      BoxOf(<<0, 0>>, <<0, Grid>>, <<0, 0>>),
      BoxOf(<<Grid, -Grid>>, <<-Grid, Grid>>, <<Grid, 0>>) }

\* boxes tested against planes and points: every X and Y interval, every
\* ordered Z interval
PlaneBoxes ==
    {BoxOf(x, y, z) : x \in Intervals, y \in Intervals,
                      z \in {i \in Intervals : i[1] <= i[2]}}

\* boxes tested against the directly constructed frusta
IntersectBoxes ==
    {BoxOf(x, y, z) : x \in Intervals,
                      y \in {<<0, Grid>>, <<-Grid, 0>>},
                      z \in {<<0, Grid>>, <<Grid, Grid>>, <<-Grid, -Grid>>}}

\* boxes tested against the camera's frusta
CameraBoxes ==
    {BoxOf(x, y, z) : x \in {i \in Intervals : i[1] <= i[2]},
                      y \in {<<-Grid, 0>>, <<0, Grid>>, <<-Grid, Grid>>},
                      z \in {<<-Grid, 0>>, <<-Grid, -Grid>>, <<0, Grid>>}}

\* arguments of distanceX and distanceY: point[0] and point[1] range over
\* the coordinates, their neighbours and the midpoints
ProbeCoords ==
    Coords \cup {c - 1 : c \in Coords} \cup {c + 1 : c \in Coords}
           \cup {c + Grid \div 2 : c \in Coords}

Points == {<<c, -c>> : c \in ProbeCoords}

TreePoints == {<<Grid + 1, -1>>}

\* planes (nx, ny, nz, d): x >= 0, x + y <= Grid, z >= Grid, everything,
\* nothing
HalfSpaces ==
    { <<1, 0, 0, 0>>, <<-1, -1, 0, Grid>>, <<0, 0, 1, -Grid>>,
      <<0, 0, 0, 1>>, <<0, 0, 0, -1>> }

TreePlanes == { <<-1, -1, 0, Grid>> }

\* planes of the directly constructed frusta
FrustumPlaneChoices == { <<1, 0, 0, 0>>, <<-1, -1, 0, Grid>>, <<0, 0, 1, -Grid>> }

\* a frustum has one plane for each triplet of frustumPlanePointIndices
NumPlanes == Len(frustumPlanePointIndices)

\* the 8 corners of the cube [lo, hi]^3, as vec4 with w = 1
CubePoints(lo, hi) ==
    [i \in 1..Len(clipSpaceCorners) |->
        <<IF clipSpaceCorners[i][1] < 0 THEN lo ELSE hi,
          IF clipSpaceCorners[i][2] < 0 THEN lo ELSE hi,
          IF clipSpaceCorners[i][3] < 0 THEN lo ELSE hi,
          1>>]

PointChoices ==
    { CubePoints(-Grid - 1, -1), CubePoints(-Grid, 0), CubePoints(Grid, Grid + 1) }

\* new Frustum(points, planes)
DirectFrusta ==
    {[points |-> pts, planes |-> pls] :
        pts \in PointChoices, pls \in [1..NumPlanes -> FrustumPlaneChoices]}

mat4_multiply(a, b) ==
    [k \in 1..16 |->
        LET row == ((k - 1) % 4) + 1
            col == ((k - 1) \div 4) + 1
        IN  a[row] * b[4 * (col - 1) + 1] + a[4 + row] * b[4 * (col - 1) + 2]
            + a[8 + row] * b[4 * (col - 1) + 3] + a[12 + row] * b[4 * (col - 1) + 4]]

Identity == <<1,0,0,0, 0,1,0,0, 0,0,1,0, 0,0,0,1>>

\* clip space to view space of a perspective camera looking down -z with the
\* near plane at distance n (half-width a) and the far plane at 3n (3a)
InvPerspective(a, n) == <<3 * a,0,0,0, 0,3 * a,0,0, 0,0,0,-1, 0,0,-3 * n,2>>

\* clip space to view space of an orthographic camera: half-width a,
\* z from -n to -3n
InvOrtho(a, n) == <<a,0,0,0, 0,a,0,0, 0,0,-n,0, 0,0,-2 * n,1>>

ScaleY(f) == <<1,0,0,0, 0,f,0,0, 0,0,1,0, 0,0,0,1>>

Translate(t) == <<1,0,0,0, 0,1,0,0, 0,0,1,0, t[1],t[2],t[3],1>>

\* quarter turns about z (bearing) and about x (pitch)
RotZ == <<0,1,0,0, -1,0,0,0, 0,0,1,0, 0,0,0,1>>
RotX == <<1,0,0,0, 0,0,1,0, 0,-1,0,0, 0,0,0,1>>

RECURSIVE MatPow(_, _)
MatPow(m, k) == IF k = 0 THEN Identity ELSE mat4_multiply(m, MatPow(m, k - 1))

\* the inverse projections a camera hands over: view to world by pitch,
\* bearing and position, after clip to view; flip = -1 is the map's camera,
\* whose projection is scaled by (1, -1, 1), flip = 1 a camera without it
InvProjs ==
    { mat4_multiply(Translate(t),
        mat4_multiply(MatPow(RotZ, rz),
          mat4_multiply(MatPow(RotX, rx),
            mat4_multiply(ScaleY(flip), lens)))) :
        t \in {<<0, 0, 0>>, <<Grid, 0, 2 * Grid>>, <<-Grid, Grid, Grid>>},
        rz \in 0..3, rx \in 0..1, flip \in {1, -1},
        lens \in {InvPerspective(Grid \div 2, Grid \div 2), InvOrtho(Grid, Grid \div 2)} }

WorldSizes == {1, 2}
Zooms == {0, 1}

\* the arguments for which every quotient of frustumCoord is exact
ExactCamera(m, worldSize, zoom) ==
    \A i \in 1..Len(clipSpaceCorners) :
        LET v == vec4_transformMat4(clipSpaceCorners[i], m)
        IN  /\ v[4] # 0
            /\ (v[1] * Pow2(zoom)) % Abs(v[4] * worldSize) = 0
            /\ (v[2] * Pow2(zoom)) % Abs(v[4] * worldSize) = 0
            /\ v[3] % Abs(v[4]) = 0
            /\ Pow2(zoom) % worldSize = 0

Cameras ==
    {c \in [invProj : InvProjs, worldSize : WorldSizes, zoom : Zooms] :
        ExactCamera(c.invProj, c.worldSize, c.zoom)}

\* the camera of the specifications that do not vary it: worldSize and zoom
\* are the defaults of fromInvProjectionMatrix
DefaultCamera ==
    [invProj |-> mat4_multiply(ScaleY(-1), InvPerspective(Grid \div 2, Grid \div 2)),
     worldSize |-> 1, zoom |-> 0]

DefaultFrustum ==
    fromInvProjectionMatrix(DefaultCamera.invProj, DefaultCamera.worldSize,
                            DefaultCamera.zoom)

---------------------------------------------------------------------------
(* The state machine *)

Root == <<>>

Id(path, field) == <<path, field>>

NoCall == [op |-> "none", box |-> Root, arg |-> 0, ret |-> 0]

\* new Aabb(min, max) on two arrays of the caller, a frustum and a camera
InitWith(roots, frusta, cameras) ==
    \E b \in roots, f \in frusta, c \in cameras :
        LET h0 == (Id(Root, "min") :> b.min) @@ (Id(Root, "max") :> b.max)
            r  == Aabb(h0, Id(Root, "min"), Id(Root, "max"), Id(Root, "center"))
        IN  /\ heap = r.heap
            /\ boxes = (Root :> r.this)
            /\ frustum = f
            /\ camera = c
            /\ phase = "calls"
            /\ last = NoCall
            /\ images = <<>>

Quadrant(p, index) ==
    /\ phase = "calls"
    /\ Len(p) < MaxDepth
    /\ Cardinality(DOMAIN boxes) < MaxBoxes
    /\ Append(p, index) \notin DOMAIN boxes
    /\ LET q == Append(p, index)
           r == quadrant(heap, boxes[p], index,
                         [min |-> Id(q, "min"), max |-> Id(q, "max"),
                          center |-> Id(q, "center")])
       IN  /\ heap' = r.heap
           /\ boxes' = boxes @@ (q :> r.this)
           /\ last' = [op |-> "quadrant", box |-> p, arg |-> index, ret |-> q]
    /\ UNCHANGED <<camera, frustum, phase, images>>

DistanceX(p, point) ==
    /\ phase = "calls"
    /\ last' = [op |-> "distanceX", box |-> p, arg |-> point,
                ret |-> distanceX(ValueOf(heap, boxes[p]), point)]
    /\ UNCHANGED <<heap, boxes, camera, frustum, phase, images>>

DistanceY(p, point) ==
    /\ phase = "calls"
    /\ last' = [op |-> "distanceY", box |-> p, arg |-> point,
                ret |-> distanceY(ValueOf(heap, boxes[p]), point)]
    /\ UNCHANGED <<heap, boxes, camera, frustum, phase, images>>

IntersectsFrustum(p) ==
    /\ phase = "calls"
    /\ last' = [op |-> "intersectsFrustum", box |-> p, arg |-> frustum,
                ret |-> intersectsFrustum(ValueOf(heap, boxes[p]), frustum)]
    /\ UNCHANGED <<heap, boxes, camera, frustum, phase, images>>

IntersectsPlane(p, plane) ==
    /\ phase = "calls"
    /\ last' = [op |-> "intersectsPlane", box |-> p, arg |-> plane,
                ret |-> intersectsPlane(ValueOf(heap, boxes[p]), plane)]
    /\ UNCHANGED <<heap, boxes, camera, frustum, phase, images>>

\* the frustum is rebuilt from the camera
FromInvProjectionMatrix ==
    /\ phase = "calls"
    /\ last.op # "fromInvProjectionMatrix"
    /\ frustum' = fromInvProjectionMatrix(camera.invProj, camera.worldSize,
                                          camera.zoom)
    /\ last' = [op |-> "fromInvProjectionMatrix", box |-> Root,
                arg |-> camera, ret |-> 0]
    /\ UNCHANGED <<heap, boxes, camera, phase, images>>

\* a value no coordinate of the model has
Poison == Grid * (MaxCoord + 1) + 1

\* the caller overwrites the elements of an array of a box quadrant() returned
Write(q, field) ==
    /\ phase = "calls"
    /\ q # Root
    /\ heap' = [heap EXCEPT ![boxes[q][field]] = <<Poison, Poison, Poison>>]
    /\ phase' = "written"
    /\ last' = [op |-> "write", box |-> q, arg |-> field, ret |-> 0]
    /\ UNCHANGED <<boxes, camera, frustum, images>>

Indices == 0..3

Init == InitWith(TreeRoots, {DefaultFrustum}, {DefaultCamera})

Next ==
    \/ \E p \in DOMAIN boxes, index \in Indices : Quadrant(p, index)
    \/ \E p \in DOMAIN boxes, point \in TreePoints : DistanceX(p, point)
    \/ \E p \in DOMAIN boxes, point \in TreePoints : DistanceY(p, point)
    \/ \E p \in DOMAIN boxes : IntersectsFrustum(p)
    \/ \E p \in DOMAIN boxes, plane \in TreePlanes : IntersectsPlane(p, plane)
    \/ \E q \in DOMAIN boxes, field \in {"min", "max", "center"} : Write(q, field)

Spec == Init /\ [][Next]_vars

\* one box against directly constructed frusta
InitIntersect == InitWith(IntersectBoxes, DirectFrusta, {DefaultCamera})

NextIntersect == IntersectsFrustum(Root)

SpecIntersect == InitIntersect /\ [][NextIntersect]_vars

\* one box against planes and points
InitPlane == InitWith(PlaneBoxes, {DefaultFrustum}, {DefaultCamera})

NextPlane ==
    \/ \E plane \in HalfSpaces : IntersectsPlane(Root, plane)
    \/ \E point \in Points : DistanceX(Root, point)
    \/ \E point \in Points : DistanceY(Root, point)

SpecPlane == InitPlane /\ [][NextPlane]_vars

\* one box against the frusta of the cameras
InitCamera == InitWith(CameraBoxes, {DefaultFrustum}, Cameras)

NextCamera ==
    \/ FromInvProjectionMatrix
    \/ IntersectsFrustum(Root)

SpecCamera == InitCamera /\ [][NextCamera]_vars

\* roots of the trees a traversal tests node by node: boxes around the
\* origin and away from it, one of them flat
InheritRoots ==
    { BoxOf(<<-Grid, Grid>>, <<-Grid, Grid>>, <<0, Grid>>),
      BoxOf(<<Grid, 2 * Grid>>, <<-Grid, 0>>, <<0, Grid>>),
      BoxOf(<<0, Grid>>, <<-2 * Grid, 0>>, <<Grid, Grid>>),
      BoxOf(<<-2 * Grid, -Grid>>, <<Grid, 2 * Grid>>, <<-Grid, Grid>>) }

\* plane lists of the frusta of a traversal: the slab
\* [-2 Grid, 2 Grid]^2 x [-Grid, Grid], whose faces some roots touch; the
\* same with x + y <= Grid for its right side, which cuts the roots around
\* the origin; and the same with x + y <= 0 and z >= Grid
InheritPlanes ==
    { << <<0, 0, 1, Grid>>, <<0, 0, -1, Grid>>, <<1, 0, 0, 2 * Grid>>,
         <<-1, 0, 0, 2 * Grid>>, <<0, 1, 0, 2 * Grid>>, <<0, -1, 0, 2 * Grid>> >>,
      << <<0, 0, 1, Grid>>, <<0, 0, -1, Grid>>, <<1, 0, 0, 2 * Grid>>,
         <<-1, -1, 0, Grid>>, <<0, 1, 0, 2 * Grid>>, <<0, -1, 0, 2 * Grid>> >>,
      << <<0, 0, 1, -Grid>>, <<0, 0, -1, Grid>>, <<1, 0, 0, 2 * Grid>>,
         <<-1, -1, 0, 0>>, <<0, 1, 0, 2 * Grid>>, <<0, -1, 0, 2 * Grid>> >> }

\* new Frustum(points, planes) for the traversal
InheritFrusta ==
    {[points |-> CubePoints(-2 * Grid, 2 * Grid), planes |-> pls] :
        pls \in InheritPlanes}

\* a traversal: nodes are subdivided and tested against one frustum
InitInherit == InitWith(InheritRoots, InheritFrusta, {DefaultCamera})

NextInherit ==
    \/ \E p \in DOMAIN boxes, index \in Indices : Quadrant(p, index)
    \/ \E p \in DOMAIN boxes : IntersectsFrustum(p)

SpecInherit == InitInherit /\ [][NextInherit]_vars

---------------------------------------------------------------------------
(* The images: construction, resize, clone, copy and replace               *)

Sizes == [width : 0..MaxSide, height : 0..MaxSide]

\* arguments of copy: the first pixel or the whole of the largest image,
\* or nothing, from the origin or from the last column, to the origin or to
\* the last row
CopyArgs ==
    [srcPt : {[x |-> 0, y |-> 0], [x |-> MaxSide, y |-> 0]},
     dstPt : {[x |-> 0, y |-> 0], [x |-> 0, y |-> MaxSide]},
     size  : {[width |-> 1, height |-> 1], [width |-> MaxSide, height |-> MaxSide],
              [width |-> 0, height |-> 1]}]

Channels == {1, 4}

\* lengths of the arrays callers hold: one alpha pixel, the largest RGBA
\* image, and one RGBA pixel more than that
LargestImage == 4 * MaxSide * MaxSide

CallerLengths == {1, LargestImage, LargestImage + 4}

\* the arrays callers hold: a Uint8Array of each length and the longest
\* Uint8ClampedArray, each on a buffer of its own, and a Uint8ClampedArray on
\* the first LargestImage bytes of the clamped array's buffer
CallerArrays ==
    {[view |-> Id(<<n>>, "Uint8Array"), kind |-> "Uint8Array",
      buffer |-> Id(<<n>>, "Uint8Array"), length |-> n] : n \in CallerLengths}
    \cup {[view |-> Id(<<LargestImage + 4>>, "Uint8ClampedArray"),
           kind |-> "Uint8ClampedArray",
           buffer |-> Id(<<LargestImage + 4>>, "Uint8ClampedArray"),
           length |-> LargestImage + 4],
          [view |-> Id(<<LargestImage>>, "subarray"), kind |-> "Uint8ClampedArray",
           buffer |-> Id(<<LargestImage + 4>>, "Uint8ClampedArray"),
           length |-> LargestImage]}

\* the buffers of the callers' arrays: the one-element array holds 1, the
\* others zeros, as an array holds when it is allocated
CallerHeap ==
    [id \in {a.buffer : a \in CallerArrays} |->
        [k \in 1..id[1][1] |-> IF id = Id(<<1>>, "Uint8Array") THEN 1 ELSE 0]]

\* the array and the buffer an operation on image `name` allocates
Fresh(name) == [view |-> Id(<<name>>, "new"), buffer |-> Id(<<name>>, "new")]

\* when an operation is over, what it allocated for an image is known as
\* the image's own array, and a buffer that neither an image nor a caller
\* holds any more is collected
Own(id) == IF id[2] = "new" THEN Id(id[1], "data") ELSE id

Settle(h, imgs) ==
    LET live == {imgs[i].data.buffer : i \in DOMAIN imgs} \cup DOMAIN CallerHeap
    IN  [heap   |-> [id \in {Own(b) : b \in live} |->
                        IF Id(id[1], "new") \in live /\ id[2] = "data"
                        THEN h[Id(id[1], "new")] ELSE h[id]],
         images |-> [i \in DOMAIN imgs |->
                        [imgs[i] EXCEPT !.data.view = Own(@),
                                        !.data.buffer = Own(@)]]]

\* new AlphaImage(size, data) or new RGBAImage(size, data); an image that
\* the constructor throws on is never handed to the caller
Construct(channels, size, data) ==
    /\ Cardinality(DOMAIN images) < MaxImages
    /\ LET name == Cardinality(DOMAIN images)
           r    == createImage(heap, size, channels, data, Fresh(name))
           s    == IF r.threw = "none"
                   THEN Settle(r.heap, images @@ (name :> r.image))
                   ELSE Settle(r.heap, images)
       IN  /\ heap' = s.heap
           /\ images' = s.images
           /\ last' = [op |-> "construct", box |-> <<name>>,
                       arg |-> [channels |-> channels, size |-> size, data |-> data],
                       ret |-> r.threw]
    /\ UNCHANGED <<boxes, camera, frustum, phase>>

Resize(name, size) ==
    /\ LET r == resizeImage(heap, images[name], size, images[name].channels,
                            Fresh(name))
           s == Settle(r.heap, [images EXCEPT ![name] = r.image])
       IN  /\ heap' = s.heap
           /\ images' = s.images
           /\ last' = [op |-> "resize", box |-> <<name>>, arg |-> size,
                       ret |-> r.threw]
    /\ UNCHANGED <<boxes, camera, frustum, phase>>

Clone(name) ==
    /\ Cardinality(DOMAIN images) < MaxImages
    /\ LET new == Cardinality(DOMAIN images)
           r   == clone(heap, images[name], Fresh(new))
           s   == IF r.threw = "none"
                  THEN Settle(r.heap, images @@ (new :> r.image))
                  ELSE Settle(r.heap, images)
       IN  /\ heap' = s.heap
           /\ images' = s.images
           /\ last' = [op |-> "clone", box |-> <<name>>, arg |-> new,
                       ret |-> r.threw]
    /\ UNCHANGED <<boxes, camera, frustum, phase>>

\* AlphaImage.copy or RGBAImage.copy, on two images of the class
Copy(src, dst, srcPt, dstPt, size) ==
    /\ images[src].channels = images[dst].channels
    /\ LET r == copyImage(heap, images[src], images[dst], srcPt, dstPt, size,
                          images[dst].channels)
       IN  /\ heap' = r.heap
           /\ last' = [op |-> "copy", box |-> <<dst>>, arg |-> src, ret |-> r.threw]
    /\ UNCHANGED <<boxes, camera, frustum, phase, images>>

\* replace(data, copy) of an RGBAImage
Replace(name, data, copy) ==
    /\ images[name].channels = 4
    /\ LET r == replace(heap, images[name], data, copy, Fresh(name))
           s == Settle(r.heap, [images EXCEPT ![name] = r.image])
       IN  /\ heap' = s.heap
           /\ images' = s.images
           /\ last' = [op |-> "replace", box |-> <<name>>, arg |-> copy,
                       ret |-> r.threw]
    /\ UNCHANGED <<boxes, camera, frustum, phase>>

\* no image yet; the callers' arrays are allocated
InitImage ==
    /\ heap = CallerHeap
    /\ images = <<>>
    /\ boxes = <<>>
    /\ frustum = DefaultFrustum
    /\ camera = DefaultCamera
    /\ phase = "calls"
    /\ last = NoCall

NextImage ==
    \/ \E channels \in Channels, size \in Sizes, data \in CallerArrays \cup {NoData} :
          Construct(channels, size, data)
    \/ \E name \in DOMAIN images, size \in Sizes : Resize(name, size)
    \/ \E name \in DOMAIN images : Clone(name)
    \/ \E src \in DOMAIN images, dst \in DOMAIN images, a \in CopyArgs :
          Copy(src, dst, a.srcPt, a.dstPt, a.size)
    \/ \E name \in DOMAIN images, data \in CallerArrays, copy \in BOOLEAN :
          Replace(name, data, copy)

SpecImage == InitImage /\ [][NextImage]_vars

---------------------------------------------------------------------------
(* What the claims speak of *)

\* the box the last call was made on, by value
This == ValueOf(heap, boxes[last.box])

Ordered(b) == \A axis \in 1..3 : b.min[axis] <= b.max[axis]

\* the 8 min/max combinations of a box
Combos == [1..3 -> {"min", "max"}]

Corner(b, c) == <<b[c[1]][1], b[c[2]][2], b[c[3]][3], 1>>

InsideCount(b, plane) ==
    Cardinality({c \in Combos : vec4_dot(plane, Corner(b, c)) >= 0})

AllInside(b, plane) == \A c \in Combos : vec4_dot(plane, Corner(b, c)) >= 0

AllOutside(b, plane) == \A c \in Combos : vec4_dot(plane, Corner(b, c)) < 0

\* the frustum points, less the box's min, lie below 0 or above max - min
AxisSeparates(b, f, axis) ==
    \/ \A i \in 1..Len(f.points) : f.points[i][axis] - b.min[axis] < 0
    \/ \A i \in 1..Len(f.points) :
            f.points[i][axis] - b.min[axis] > b.max[axis] - b.min[axis]

Clamp(x, lo, hi) == IF x < lo THEN lo ELSE IF x > hi THEN hi ELSE x

---------------------------------------------------------------------------
\* C1: intersectsFrustum returns Full if and only if every corner of the box
\* satisfies plane . corner >= 0 for every plane of the frustum, so a plane
\* with all corners inside never yields Full when another plane, earlier or
\* later, has a corner outside; the frustum's points play no part.
C1_FullIffAllCornersInside ==
    last.op = "intersectsFrustum" =>
        (last.ret = Full <=>
            \A p \in 1..Len(last.arg.planes) : AllInside(This, last.arg.planes[p]))

\* a first plane with all corners inside, a last plane with a corner outside
C1_Witness ==
    /\ last.op = "intersectsFrustum"
    /\ AllInside(This, last.arg.planes[1])
    /\ ~AllInside(This, last.arg.planes[NumPlanes])
    /\ InsideCount(This, last.arg.planes[NumPlanes]) > 0
    /\ last.ret = Partial

\* C4: when all 8 corners are outside one plane of the frustum, wherever it
\* is in the list, intersectsFrustum returns None.
C4_OutsideOnePlaneIsNone ==
    last.op = "intersectsFrustum" =>
        ((\E p \in 1..Len(last.arg.planes) : AllOutside(This, last.arg.planes[p]))
            => last.ret = None)

\* only the last plane has every corner outside
C4_Witness ==
    /\ last.op = "intersectsFrustum"
    /\ AllOutside(This, last.arg.planes[NumPlanes])
    /\ \A p \in 1..(NumPlanes - 1) : ~AllOutside(This, last.arg.planes[p])
    /\ \A axis \in 1..3 : ~AxisSeparates(This, last.arg, axis)
    /\ last.ret = None

\* C5: when every plane has a corner inside and some plane has a corner
\* outside, intersectsFrustum returns None exactly when on some axis the
\* frustum points, less the box's min, lie entirely below 0 or entirely above
\* max - min, and Partial otherwise.
C5_AxisPhase ==
    (/\ last.op = "intersectsFrustum"
     /\ \A p \in 1..Len(last.arg.planes) : ~AllOutside(This, last.arg.planes[p])
     /\ \E p \in 1..Len(last.arg.planes) : ~AllInside(This, last.arg.planes[p]))
    => IF \E axis \in 1..3 : AxisSeparates(This, last.arg, axis)
       THEN last.ret = None
       ELSE last.ret = Partial

\* the frustum points touch the box on an axis and are apart on no axis
C5_Witness ==
    /\ last.op = "intersectsFrustum"
    /\ \A p \in 1..Len(last.arg.planes) : ~AllOutside(This, last.arg.planes[p])
    /\ \E p \in 1..Len(last.arg.planes) : ~AllInside(This, last.arg.planes[p])
    /\ \E axis \in 1..3 :
            \A i \in 1..Len(last.arg.points) :
                last.arg.points[i][axis] - This.min[axis] <= 0
    /\ last.ret = Partial

\* C3: intersectsPlane counts the 8 min/max corners with plane . corner >= 0
\* and returns None for 0, Full for 8 and Partial for 1 to 7; a corner on the
\* plane counts as inside.
C3_PlaneCount ==
    last.op = "intersectsPlane" =>
        LET n == InsideCount(This, last.arg)
        IN  /\ n = 0 => last.ret = None
            /\ n = 8 => last.ret = Full
            /\ n \in 1..7 => last.ret = Partial

\* Full with a corner on the plane
C3_Witness ==
    /\ last.op = "intersectsPlane"
    /\ \E c \in Combos : vec4_dot(last.arg, Corner(This, c)) = 0
    /\ This.min # This.max
    /\ last.ret = Full

\* C8: for a box with min <= max, distanceX and distanceY are the clamped
\* coordinate less the coordinate: 0 exactly within [min, max], positive
\* below min, negative above max; box (0,0)-(10,10) and point (15,-5) give
\* -5 and 5.
C8_Distance ==
    /\ \A k \in 1..2 :
        (last.op = <<"distanceX", "distanceY">>[k] /\ Ordered(This)) =>
            LET x  == last.arg[k]
                lo == This.min[k]
                hi == This.max[k]
            IN  /\ last.ret = Clamp(x, lo, hi) - x
                /\ last.ret = 0 <=> (lo <= x /\ x <= hi)
                /\ x < lo => last.ret > 0
                /\ x > hi => last.ret < 0
    /\ LET b == [min |-> <<0, 0, 0>>, max |-> <<10, 10, 0>>, center |-> <<5, 5, 0>>]
       IN  distanceX(b, <<15, -5>>) = -5 /\ distanceY(b, <<15, -5>>) = 5

\* a point beyond max on x
C8_Witness ==
    /\ last.op = "distanceX"
    /\ Ordered(This)
    /\ This.min[1] < This.max[1]
    /\ last.arg[1] > This.max[1]
    /\ last.ret < 0

\* the boxes that have all four children
Subdivided == {p \in DOMAIN boxes : \A i \in Indices : Append(p, i) \in DOMAIN boxes}

Child(p, i) == ValueOf(heap, boxes[Append(p, i)])

\* the point (u[1] / 2, u[2] / 2) lies in the box's X/Y footprint
InFootprint(u, b) ==
    \A axis \in 1..2 : 2 * b.min[axis] <= u[axis] /\ u[axis] <= 2 * b.max[axis]

\* the half-integer points of a box's footprint
FootprintPoints(b) ==
    (2 * b.min[1] .. 2 * b.max[1]) \X (2 * b.min[2] .. 2 * b.max[2])

\* two footprints have a common interior point
InteriorsMeet(a, b) ==
    \A axis \in 1..2 :
        Max2(a.min[axis], b.min[axis]) < Min2(a.max[axis], b.max[axis])

\* C6: the four children of a box with min <= max tile its X/Y footprint:
\* every point of the parent's footprint is in a child's, every child's
\* footprint is within the parent's, two children have no common interior
\* point, and each child's Z range is the parent's.
C6_QuadrantsTile ==
    phase = "calls" =>
        \A p \in Subdivided :
            LET P == ValueOf(heap, boxes[p])
            IN  Ordered(P) =>
                /\ \A u \in FootprintPoints(P) :
                        \E i \in Indices : InFootprint(u, Child(p, i))
                /\ \A i \in Indices :
                        \A axis \in 1..2 :
                            /\ P.min[axis] <= Child(p, i).min[axis]
                            /\ Child(p, i).min[axis] <= Child(p, i).max[axis]
                            /\ Child(p, i).max[axis] <= P.max[axis]
                /\ \A i, j \in Indices :
                        i # j => ~InteriorsMeet(Child(p, i), Child(p, j))
                /\ \A i \in Indices :
                        /\ Child(p, i).min[3] = P.min[3]
                        /\ Child(p, i).max[3] = P.max[3]

\* a box of positive width and height with its four children
C6_Witness ==
    /\ phase = "calls"
    /\ \E p \in Subdivided :
            LET P == ValueOf(heap, boxes[p])
            IN  Ordered(P) /\ P.min[1] < P.max[1] /\ P.min[2] < P.max[2]

Mid(a, b) == (a + b) \div 2

\* C7: quadrant(index), index in 0..3, has the X range [min.x, center.x] for
\* even index and [center.x, max.x] for odd index, and the Y range
\* [min.y, center.y] for index < 2 and [center.y, max.y] otherwise, center
\* being (min + max) / 2 of the parent.
C7_QuadrantRanges ==
    phase = "calls" =>
        \A q \in DOMAIN boxes \ {Root} :
            LET i == q[Len(q)]
                P == ValueOf(heap, boxes[SubSeq(q, 1, Len(q) - 1)])
                Q == ValueOf(heap, boxes[q])
                cx == Mid(P.min[1], P.max[1])
                cy == Mid(P.min[2], P.max[2])
            IN  /\ (P.min[1] + P.max[1]) % 2 = 0
                /\ (P.min[2] + P.max[2]) % 2 = 0
                /\ <<Q.min[1], Q.max[1]>> =
                        IF i % 2 = 0 THEN <<P.min[1], cx>> ELSE <<cx, P.max[1]>>
                /\ <<Q.min[2], Q.max[2]>> =
                        IF i < 2 THEN <<P.min[2], cy>> ELSE <<cy, P.max[2]>>

\* quadrant(1) once quadrant(2) was taken: high X, low Y
C7_Witness ==
    /\ phase = "calls"
    /\ last.op = "quadrant"
    /\ last.arg = 1
    /\ Append(last.box, 2) \in DOMAIN boxes
    /\ LET P == ValueOf(heap, boxes[last.box])
           Q == ValueOf(heap, boxes[last.ret])
       IN  /\ P.min[1] < P.max[1] /\ P.min[2] < P.max[2]
           /\ Q.min[1] > P.min[1] /\ Q.max[2] < P.max[2]

Arrays(b) == {b.min, b.max, b.center}

\* no two boxes hold the same array, and no box holds one array twice
NoSharing ==
    /\ \A p, q \in DOMAIN boxes : p # q => Arrays(boxes[p]) \cap Arrays(boxes[q]) = {}
    /\ \A p \in DOMAIN boxes : Cardinality(Arrays(boxes[p])) = 3

\* C9: every call, and every write to an array of a box that quadrant
\* returned, leaves every other existing box with the min, max and center
\* it had, and the frustum with its points and planes; no array is shared
\* between boxes.
C9_Frame ==
    [][ /\ \A p \in DOMAIN boxes :
            \/ last'.op = "write" /\ last'.box = p
            \/ /\ boxes'[p] = boxes[p]
               /\ ValueOf(heap', boxes'[p]) = ValueOf(heap, boxes[p])
        /\ frustum' = frustum
        /\ NoSharing' ]_vars

\* a child with three siblings has been written to, after the other calls
C9_Witness ==
    /\ phase = "written"
    /\ last.box # Root
    /\ Root \in Subdivided
    /\ heap[boxes[last.box].min] # heap[boxes[Root].min]

Det3(a, b, c) == vec3_dot(a, vec3_cross(b, c))

\* determinant of a mat4
Det4(m) ==
    LET b00 == m[1] * m[6] - m[2] * m[5]
        b01 == m[1] * m[7] - m[3] * m[5]
        b02 == m[1] * m[8] - m[4] * m[5]
        b03 == m[2] * m[7] - m[3] * m[6]
        b04 == m[2] * m[8] - m[4] * m[6]
        b05 == m[3] * m[8] - m[4] * m[7]
        b06 == m[9] * m[14] - m[10] * m[13]
        b07 == m[9] * m[15] - m[11] * m[13]
        b08 == m[9] * m[16] - m[12] * m[13]
        b09 == m[10] * m[15] - m[11] * m[14]
        b10 == m[10] * m[16] - m[12] * m[14]
        b11 == m[11] * m[16] - m[12] * m[15]
    IN  b00 * b11 - b01 * b10 + b02 * b09 + b03 * b08 - b04 * b07 + b05 * b06

\* the projection is invertible and every clip-space corner is in front of
\* the camera (w > 0)
ValidCamera(c) ==
    /\ Det4(c.invProj) # 0
    /\ c.worldSize > 0
    /\ \A i \in 1..Len(clipSpaceCorners) :
            vec4_transformMat4(clipSpaceCorners[i], c.invProj)[4] > 0

\* clip space to world space keeps the handedness
KeepsOrientation(c) == Det4(c.invProj) > 0

\* 8 times the centroid of the frustum's points, with w = 8
Centroid8(f) ==
    << f.points[1][1] + f.points[2][1] + f.points[3][1] + f.points[4][1]
        + f.points[5][1] + f.points[6][1] + f.points[7][1] + f.points[8][1],
       f.points[1][2] + f.points[2][2] + f.points[3][2] + f.points[4][2]
        + f.points[5][2] + f.points[6][2] + f.points[7][2] + f.points[8][2],
       f.points[1][3] + f.points[2][3] + f.points[3][3] + f.points[4][3]
        + f.points[5][3] + f.points[6][3] + f.points[7][3] + f.points[8][3],
       8 >>

AtW1(pt) == <<pt[1], pt[2], pt[3], 1>>

\* the centroid and the 8 points satisfy every plane
PlanesInward(f) ==
    \A p \in 1..Len(f.planes) :
        /\ vec4_dot(f.planes[p], Centroid8(f)) >= 0
        /\ \A i \in 1..Len(f.points) : vec4_dot(f.planes[p], AtW1(f.points[i])) >= 0

\* each plane contains the three points it was derived from
PlanesThroughTriplets(f) ==
    \A p \in 1..Len(f.planes) :
        \A k \in 1..3 :
            vec4_dot(f.planes[p], AtW1(f.points[frustumPlanePointIndices[p][k]])) = 0

\* C10 as claimed: for the inverse of every valid camera projection, the 6
\* planes are oriented inward (the centroid of the 8 points satisfies all of
\* them) and each contains its three points.
C10_InwardForEveryCamera ==
    (last.op = "fromInvProjectionMatrix" /\ ValidCamera(last.arg)) =>
        PlanesInward(frustum) /\ PlanesThroughTriplets(frustum)

\* C10, amended: for the inverse of a valid camera projection whose map from
\* clip space to world space keeps the handedness (det(invProj) > 0, as with
\* the map's projection, which is scaled by (1, -1, 1)), the 6 planes are
\* oriented inward and each contains its three points; for any valid camera
\* each plane contains its three points.
C10_InwardWhenOrientationKept ==
    (last.op = "fromInvProjectionMatrix" /\ ValidCamera(last.arg)) =>
        /\ PlanesThroughTriplets(frustum)
        /\ KeepsOrientation(last.arg) => PlanesInward(frustum)

\* a frustum of a turned, moved perspective camera that keeps the handedness
C10_Witness ==
    /\ last.op = "fromInvProjectionMatrix"
    /\ ValidCamera(last.arg)
    /\ KeepsOrientation(last.arg)
    /\ \E i, j \in 1..Len(clipSpaceCorners) :
            vec4_transformMat4(clipSpaceCorners[i], last.arg.invProj)[4]
                # vec4_transformMat4(clipSpaceCorners[j], last.arg.invProj)[4]
    /\ last.arg.invProj[13] # 0
    /\ last.arg.invProj[1] = 0
    /\ frustum # DefaultFrustum

\* the frusta of the cameras that keep the handedness: their 8 points are
\* the corners of the region their 6 planes bound
CornerFrusta ==
    {fromInvProjectionMatrix(c.invProj, c.worldSize, c.zoom) :
        c \in {k \in Cameras : ValidCamera(k) /\ KeepsOrientation(k)}}

\* the 6 faces of a box as planes
BoxFaces(b) ==
    << <<1, 0, 0, -b.min[1]>>, <<-1, 0, 0, b.max[1]>>,
       <<0, 1, 0, -b.min[2]>>, <<0, -1, 0, b.max[2]>>,
       <<0, 0, 1, -b.min[3]>>, <<0, 0, -1, b.max[3]>> >>

\* D times the point where three planes meet, with w = D, D their determinant
Meet(c1, c2, c3) ==
    LET r == <<-c1[4], -c2[4], -c3[4]>>
        x == <<c1[1], c2[1], c3[1]>>
        y == <<c1[2], c2[2], c3[2]>>
        z == <<c1[3], c2[3], c3[3]>>
    IN  <<Det3(r, y, z), Det3(x, r, z), Det3(x, y, r), Det3(x, y, z)>>

\* a point lies inside the box and inside every plane of the frustum: the
\* region they share is a bounded polytope, which is not empty exactly when
\* it has a vertex, a point where three of the 12 planes meet that satisfies
\* all 12
SharePoint(b, f) ==
    LET cs == BoxFaces(b) \o f.planes
        n  == Len(cs)
    IN  \E i \in 1..n : \E j \in (i + 1)..n : \E k \in (j + 1)..n :
            LET m == Meet(cs[i], cs[j], cs[k])
            IN  /\ m[4] # 0
                /\ \A c \in 1..n :
                        IF m[4] > 0 THEN vec4_dot(cs[c], m) >= 0
                                    ELSE vec4_dot(cs[c], m) <= 0

\* C2: for a box with min <= max and a frustum whose 8 points are the
\* corners of the region its 6 planes bound, when intersectsFrustum returns
\* None no point lies both inside the box and inside the frustum.
C2_NoneIsExact ==
    (/\ last.op = "intersectsFrustum"
     /\ Ordered(This)
     /\ last.arg \in CornerFrusta
     /\ last.ret = None)
    => ~SharePoint(This, last.arg)

\* None from the axis phase: no plane has every corner outside
C2_Witness ==
    /\ last.op = "intersectsFrustum"
    /\ Ordered(This)
    /\ last.arg \in CornerFrusta
    /\ last.arg # DefaultFrustum
    /\ last.ret = None
    /\ \A p \in 1..Len(last.arg.planes) : ~AllOutside(This, last.arg.planes[p])

---------------------------------------------------------------------------
(* C11: Full is inherited down the quadtree *)

\* a is a proper ancestor of q in the tree of quadrant() calls
IsAncestor(a, q) == Len(a) < Len(q) /\ SubSeq(q, 1, Len(a)) = a

\* the ancestors of the box of the last call that test as Full
FullAncestors ==
    {a \in DOMAIN boxes :
        /\ IsAncestor(a, last.box)
        /\ Ordered(ValueOf(heap, boxes[a]))
        /\ intersectsFrustum(ValueOf(heap, boxes[a]), frustum) = Full}

\* C11: when intersectsFrustum returns Full for a box with min <= max, it
\* returns Full for every box obtained from it by quadrant() calls: a call on
\* a box that has an ancestor testing as Full returns Full.
C11_FullInherited ==
    (last.op = "intersectsFrustum" /\ FullAncestors # {}) => last.ret = Full

\* a child of a root that tests as Full with a corner on a plane of the
\* frustum has been tested, in a frustum that is Partial for another root
C11_Witness ==
    /\ last.op = "intersectsFrustum"
    /\ last.box # Root
    /\ Root \in FullAncestors
    /\ last.ret = Full
    /\ \E i \in 1..Len(frustum.planes), c \in Combos :
           vec4_dot(frustum.planes[i], Corner(ValueOf(heap, boxes[Root]), c)) = 0
    /\ \E i \in 1..Len(frustum.planes) : frustum.planes[i][1] # 0 /\ frustum.planes[i][2] # 0

---------------------------------------------------------------------------
(* C12: data.length = width * height * channels *)

Expected(img) == img.width * img.height * img.channels

\* C12: every image has data.length = width * height * channels after its
\* construction and after every resize, copy, clone and replace that does
\* not throw, and a construction with data of another length throws a
\* RangeError and creates no image.
C12_DataLength ==
    /\ \A i \in DOMAIN images : images[i].data.length = Expected(images[i])
    /\ (/\ last.op = "construct"
        /\ last.arg.data # NoData
        /\ last.arg.data.length # last.arg.size.width * last.arg.size.height
                                     * last.arg.channels)
       => (last.ret = "RangeError" /\ last.box[1] \notin DOMAIN images)

============================================================================
